---- MODULE Spec2Model ----
(***************************************************************************)
(* Backup-repository lifecycle and lock discipline of velero:              *)
(*   - the restic repositoryManager (InitRepo, ConnectToRepo, PruneRepo,   *)
(*     UnlockRepo, Forget, exec) and the RepoLocker it locks with,         *)
(*   - resticRepositoryProvider.PrepareRepo,                               *)
(*   - BackupRepoReconciler (Reconcile, initializeRepo,                    *)
(*     runMaintenanceIfDue, checkNotReadyRepo, patchBackupRepository).     *)
(* Time is counted in days.                                                *)
(***************************************************************************)
EXTENDS Integers, Sequences, FiniteSets, TLC

\* ------------------------------------------------------------------ bounds
\* last instant of the clock
MaxTime == 2
\* the times and the frequencies dueForMaintenance is tried on
MaxNow == 4
MaxFreq == 2
\* number of concurrent callers of the repository manager in SpecLock
NumClients == 2

\* ------------------------------------------------------- program constants
\* defaultMaintainFrequency = 7 * 24 * time.Hour, in days
defaultMaintainFrequency == 7

\* ------------------------------------------------------------- small sets
\* names of BackupRepository resources that own a lock entry
Names == {"r1", "r2"}
\* the resources the reconcile workers are given
Repos == {"r1"}
\* the reconcile worker of each resource
Workers == {<<"w", n>> : n \in Repos}
\* in Spec, the caller that competes with the worker for the lock of its
\* resource (a backup, a restore, the deletion of a snapshot)
Others == {<<"c", 0>>}
\* in SpecLock, the callers of the repository manager
Clients == {<<"c", i>> : i \in 1..NumClients}
Procs == Workers \cup Others \cup Clients
\* the names a caller works on
NamesOf(c) == IF c \in Others THEN Repos ELSE Names

\* unset *metav1.Time
NoTime == -1
\* empty status message
NoMsg == <<>>
\* empty spec.resticIdentifier
NoId == "none"
\* value of GetRepoIdentifier for the resource
RepoId(n) == "id"

PhaseEmpty == "Empty"
PhaseNew == "New"
PhaseReady == "Ready"
PhaseNotReady == "NotReady"

\* r.maintenanceFrequency values the server may be started with
OverrideFreqs == {0, 2}
\* results of DefaultMaintenanceFrequency: (frequency, err)
SuggestedFreqs == {[freq |-> 0, err |-> TRUE], [freq |-> 0, err |-> FALSE],
                   [freq |-> 3, err |-> TRUE], [freq |-> 3, err |-> FALSE]}
\* the frequencies dueForMaintenance is tried on: negative, zero, positive
DueFreqs == (-1)..MaxFreq
\* spec.maintenanceFrequency values a resource is created with
CreatedFreqs == {0, 1}

VARIABLES
    locks,      \* RepoLocker.locks: per name, the RWMutex (made, readers, writer)
    call,       \* per caller: the repository-manager call it is in
    store,      \* the BackupRepository resources of the API server
    rec,        \* per resource: what the reconcile in flight (or the last one) did
    clock,      \* wall clock
    override,   \* BackupRepoReconciler.maintenanceFrequency
    pure        \* arguments and result of a function applied on its own

vars == <<locks, call, store, rec, clock, override, pure>>

\* --------------------------------------------------------------- RepoLocker
\* the RWMutex of a name: made lazily, r readers, w a writer
NoLock == [made |-> FALSE, r |-> 0, w |-> FALSE]

\* a registry that stores a new mutex on every use
ensureLockFresh(lk, n) == [lk EXCEPT ![n] = [made |-> TRUE, r |-> 0, w |-> FALSE]]
ensureLock(lk, n) == IF lk[n].made THEN lk ELSE [lk EXCEPT ![n].made = TRUE]

\* RepoLocker.Lock blocks while a writer holds the mutex
CanLock(lk, n) == ~lk[n].w
Lock(lk, n) == [ensureLock(lk, n) EXCEPT ![n].r = @ + 1]
\* RepoLocker.Unlock; releasing a mutex that is not read-locked aborts the process
CanUnlock(lk, n) == lk[n].r > 0
Unlock(lk, n) == [lk EXCEPT ![n].r = @ - 1]

\* RepoLocker.LockExclusive blocks while anyone holds the mutex
CanLockExclusive(lk, n) == ~lk[n].w /\ lk[n].r = 0
LockExclusive(lk, n) == [ensureLock(lk, n) EXCEPT ![n].w = TRUE]
\* RepoLocker.UnlockExclusive; releasing a mutex that is not write-locked aborts the process
CanUnlockExclusive(lk, n) == lk[n].w
UnlockExclusive(lk, n) == [lk EXCEPT ![n].w = FALSE]

\* ------------------------------------------------------- repositoryManager
ManagerOps == {"InitRepo", "ConnectToRepo", "PruneRepo", "UnlockRepo", "Forget"}
\* the shared hold a backupper or restorer of the manager's factories takes
FactoryOps == {"Backup"}
Ops == ManagerOps \cup FactoryOps

\* AcquireMode with UnlockRepo taking the exclusive lock
AcquireModeUnlockExclusive(op) ==
    IF op \in {"InitRepo", "PruneRepo", "Forget", "UnlockRepo"} THEN "exclusive" ELSE "shared"

\* AcquireMode with PruneRepo taking the shared lock
AcquireModePruneShared(op) ==
    IF op \in {"InitRepo", "Forget"} THEN "exclusive" ELSE "shared"

\* AcquireMode with Forget taking the shared lock
AcquireModeForgetShared(op) ==
    IF op \in {"InitRepo", "PruneRepo"} THEN "exclusive" ELSE "shared"

\* AcquireMode with ConnectToRepo taking the exclusive lock
AcquireModeConnectExclusive(op) ==
    IF op \in {"InitRepo", "PruneRepo", "Forget", "ConnectToRepo"} THEN "exclusive" ELSE "shared"

\* the lock each operation takes before rm.exec
AcquireMode(op) ==
    CASE op = "InitRepo"      -> "exclusive"
      [] op = "ConnectToRepo" -> "shared"
      [] op = "PruneRepo"     -> "exclusive"
      [] op = "UnlockRepo"    -> "shared"
      [] op = "Forget"        -> "exclusive"
      [] op = "Backup"        -> "shared"

\* the lock each operation's deferred call releases
ReleaseMode(op) ==
    CASE op = "InitRepo"      -> "exclusive"
      [] op = "ConnectToRepo" -> "shared"
      [] op = "PruneRepo"     -> "exclusive"
      [] op = "UnlockRepo"    -> "shared"
      [] op = "Forget"        -> "exclusive"
      [] op = "Backup"        -> "shared"

\* what rm.exec returns: nil, or an error (of the credential path, the storage
\* location, the CA file, the environment or the command)
ExecOutcomes == {"ok", "err"}
NoErr == <<>>
\* the error a call returns
ExecErr(op, out) == IF out = "ok" THEN NoErr ELSE <<op, out>>

\* LockName with the factories locking in a registry of their own
LockNameFactoryApart(op, n) ==
    IF op \in FactoryOps THEN (IF n = "r1" THEN "r2" ELSE "r1") ELSE n

\* LockName with one key for every repository
LockNameGlobal(op, n) == "r1"

\* the key an operation locks and unlocks: repo.Name
LockName(op, n) == n

\* deferred with the unlock written after the error return of rm.exec
deferredOnSuccessOnly(op, err) == err = NoErr

\* an InitRepo that leaves its lock to the caller
deferredNotAfterInit(op, err) == op # "InitRepo"

\* the unlock is deferred: it runs on every return of the operation
deferred(op, err) == TRUE

\* the snapshots Forget is asked to remove, and no snapshot
Snapshots == {"s1", "s2"}
NoSnap == "none"

\* ForgetCommand that names one fixed snapshot
ForgetCommandFirst(snap) == <<"forget", "s1">>

\* the command Forget hands to rm.exec
ForgetCommand(snap) == <<"forget", snap>>

\* the command an operation hands to rm.exec
Command(op, snap) == IF op = "Forget" THEN ForgetCommand(snap) ELSE <<op>>

\* a call: the operation, the repository name, the snapshot (of Forget), where
\* it stands, the command rm.exec has run, the error returned
Idle == [op |-> "none", name |-> "none", snap |-> NoSnap, pc |-> "idle",
         ran |-> <<>>, err |-> NoErr]
Calling(op, n) == [op |-> op, name |-> n, snap |-> NoSnap, pc |-> "lock",
                   ran |-> <<>>, err |-> NoErr]

\* rm.repoLocker.Lock / LockExclusive at the head of an operation
Acquire(p) ==
    /\ call[p].pc = "lock"
    /\ LET n == LockName(call[p].op, call[p].name)
       IN IF AcquireMode(call[p].op) = "exclusive"
          THEN /\ CanLockExclusive(locks, n)
               /\ locks' = LockExclusive(locks, n)
          ELSE /\ CanLock(locks, n)
               /\ locks' = Lock(locks, n)
    /\ call' = [call EXCEPT ![p].pc = "exec"]
    /\ UNCHANGED <<store, rec, clock, override, pure>>

\* rm.exec runs to one of its returns while the lock is held
Exec(p) ==
    /\ call[p].pc = "exec"
    /\ \E out \in (IF call[p].op \in FactoryOps THEN {"ok"} ELSE ExecOutcomes) :
          call' = [call EXCEPT ![p].pc = "unlock", ![p].err = ExecErr(call[p].op, out),
                               ![p].ran = Command(call[p].op, call[p].snap)]
    /\ UNCHANGED <<locks, store, rec, clock, override, pure>>

\* the deferred rm.repoLocker.Unlock / UnlockExclusive
Release(p) ==
    /\ call[p].pc = "unlock"
    /\ LET n == LockName(call[p].op, call[p].name)
       IN IF ~deferred(call[p].op, call[p].err)
          THEN UNCHANGED locks
          ELSE IF ReleaseMode(call[p].op) = "exclusive"
          THEN /\ CanUnlockExclusive(locks, n)
               /\ locks' = UnlockExclusive(locks, n)
          ELSE /\ CanUnlock(locks, n)
               /\ locks' = Unlock(locks, n)
    /\ call' = [call EXCEPT ![p].pc = "returned"]
    /\ UNCHANGED <<store, rec, clock, override, pure>>

\* ---------------------------------------------------- BackupRepoReconciler
\* the error of a failed lookup of the storage location
LocErr == <<"Get", "BackupStorageLocation">>
\* the error of GetRepoIdentifier
IdentErr == <<"GetRepoIdentifier", "err">>

\* (prep is what PrepareRepo returned, once it has)
\* the bookkeeping of one Reconcile: where it stands, the resource as it was
\* read, the clock at the read, the time runMaintenanceIfDue read, the outcome
\* of the location lookup and of the identifier, the manager calls made with
\* their errors, the patches sent, the error returned, the outcome of the Get,
\* the answer of DefaultMaintenanceFrequency when it was asked
NewRec == [pc |-> "idle", path |-> "none", old |-> <<>>, start |-> 0, now |-> NoTime,
           get |-> "na", sug |-> <<>>, prep |-> <<>>, loc |-> "na", ident |-> "na", ops |-> <<>>, patches |-> <<>>, err |-> "nil"]

\* r.Get of the resource: not-found when it is gone, else the object or an error
GetOutcomes(n) == IF store[n].exists THEN {"ok", "err"} ELSE {"notFound"}
\* r.Patch: fails when the resource is gone, and may fail otherwise
PatchOutcomes(n) == IF store[n].exists THEN {"ok", "fail"} ELSE {"fail"}

\* getFailed without the test for not-found
getFailedAlways(get) == "get"

\* what Reconcile returns when the Get fails: nothing when the resource is
\* not found, the error otherwise
getFailed(get) == IF get = "notFound" THEN "nil" ELSE "get"

\* PrepareRepo that connects whatever InitRepo returned
prepareAfterInitAlways(err) == "connect"

\* PrepareRepo after its InitRepo: it returns the error, or goes on to
\* ConnectToRepo
prepareAfterInit(err) == IF err # NoErr THEN "return" ELSE "connect"

\* checkNotReadyRepo that goes on without an identifier
hasIdentifierAlways(r) == TRUE

\* checkNotReadyRepo goes on only when the identifier is set
hasIdentifier(r) == r.id # NoId

\* a stale-lock check whose failure ends the reconcile
staleLockCheckReturns(err) == IF err # NoErr THEN "return" ELSE "continue"

\* what Reconcile does with the error of the UnlockRepo it starts with: it
\* logs it and goes on
staleLockCheck(err) == "continue"

\* repoNotReady that forgets the message
repoNotReadyNoMsg(r, msg) == [r EXCEPT !.phase = PhaseNotReady]

\* repoNotReady that keeps a message already there
repoNotReadyFirstMsg(r, msg) ==
    [r EXCEPT !.phase = PhaseNotReady, !.message = IF @ = NoMsg THEN msg ELSE @]

repoNotReady(r, msg) == [r EXCEPT !.phase = PhaseNotReady, !.message = msg]

\* repoReady that leaves the message
repoReadyKeepsMsg(r) == [r EXCEPT !.phase = PhaseReady]

\* repoReady that leaves the phase
repoReadyKeepsPhase(r) == [r EXCEPT !.message = NoMsg]

\* repoReady that records a maintenance time
repoReadySetsTime(r) == [r EXCEPT !.phase = PhaseReady, !.message = NoMsg, !.last = 0]

repoReady(r) == [r EXCEPT !.phase = PhaseReady, !.message = NoMsg]

\* getRepositoryMaintenanceFrequency that takes the suggestion despite its error
getRepositoryMaintenanceFrequencyIgnoresErr(ov, sug) ==
    IF ov > 0 THEN ov
    ELSE IF sug.freq <= 0 THEN defaultMaintainFrequency ELSE sug.freq

getRepositoryMaintenanceFrequency(ov, sug) ==
    IF ov > 0 THEN ov
    ELSE IF sug.err \/ sug.freq <= 0 THEN defaultMaintainFrequency ELSE sug.freq

\* DefaultMaintenanceFrequency is asked only when the resource carries no
\* positive frequency and the reconciler has no positive override
asked(r, ov, sug) == IF r.freq <= 0 /\ ov <= 0 THEN <<sug>> ELSE <<>>

\* dueForMaintenance that is always true
dueForMaintenanceAlways(r, now) == TRUE

\* dueForMaintenance with "not after" for "before"
dueForMaintenanceNotAfter(r, now) == r.last = NoTime \/ r.last + r.freq <= now

dueForMaintenance(r, now) == r.last = NoTime \/ r.last + r.freq < now

\* identFailed that leaves the frequency alone
identFailedNoFreq(r, ov, sug) == [r EXCEPT !.message = IdentErr, !.phase = PhaseNotReady]

\* identFailed that also stores the empty identifier it was given
identFailedClearsId(r, ov, sug) ==
    [r EXCEPT !.message = IdentErr, !.phase = PhaseNotReady, !.id = NoId,
              !.freq = IF @ <= 0 THEN getRepositoryMaintenanceFrequency(ov, sug) ELSE @]

\* the mutation of initializeRepo when GetRepoIdentifier fails
identFailed(r, ov, sug) ==
    [r EXCEPT !.message = IdentErr, !.phase = PhaseNotReady,
              !.freq = IF @ <= 0 THEN getRepositoryMaintenanceFrequency(ov, sug) ELSE @]

\* defaulting that leaves the frequency
defaultingKeepsFreq(r, id, ov, sug) == [r EXCEPT !.id = id]

\* the defaulting mutation of initializeRepo
defaulting(r, id, ov, sug) ==
    [r EXCEPT !.id = id,
              !.freq = IF @ <= 0 THEN getRepositoryMaintenanceFrequency(ov, sug) ELSE @]

\* initialized without the maintenance time
initializedNoTime(r, t) == [r EXCEPT !.phase = PhaseReady]

\* the last mutation of initializeRepo
initialized(r, t) == [r EXCEPT !.phase = PhaseReady, !.last = t]

\* pruneFailed that treats the failure as the repository not being ready
pruneFailedDemotes(r, msg) == [r EXCEPT !.phase = PhaseNotReady, !.message = msg]

\* the mutation of runMaintenanceIfDue when PruneRepo fails
pruneFailed(r, msg) == [r EXCEPT !.message = msg]

\* pruned that does not record the time
prunedKeepsTime(r, now) == r

\* pruned that clears the message
prunedClearsMsg(r, now) == [r EXCEPT !.last = now, !.message = NoMsg]

\* pruned that starts the lifecycle over
prunedRenews(r, now) == [r EXCEPT !.last = now, !.phase = PhaseNew]

\* the mutation of runMaintenanceIfDue when PruneRepo succeeds
pruned(r, now) == [r EXCEPT !.last = now]

\* PatchAndReturn that hands back the error of the manager call it patches
PatchAndReturnPropagates(n, rc, mutated, out) ==
    /\ store' = [store EXCEPT ![n] = IF out = "ok" THEN mutated ELSE @]
    /\ rec' = [rec EXCEPT ![n] = [rc EXCEPT !.pc = "done",
                                            !.patches = Append(@, out),
                                            !.err = IF out # "ok" THEN "patch"
                                                    ELSE IF rc.ops # <<>> /\ rc.ops[Len(rc.ops)][2] # NoErr
                                                         THEN "cmd" ELSE "nil"]]

\* PatchAndReturn that drops the error of the patch
PatchAndReturnSwallows(n, rc, mutated, out) ==
    /\ store' = [store EXCEPT ![n] = IF out = "ok" THEN mutated ELSE @]
    /\ rec' = [rec EXCEPT ![n] = [rc EXCEPT !.pc = "done",
                                            !.patches = Append(@, out),
                                            !.err = "nil"]]

\* patchBackupRepository as the last statement of a reconcile: the store takes
\* the mutated object when the patch succeeds, Reconcile returns the error
\* when it fails
PatchAndReturn(n, rc, mutated, out) ==
    /\ store' = [store EXCEPT ![n] = IF out = "ok" THEN mutated ELSE @]
    /\ rec' = [rec EXCEPT ![n] = [rc EXCEPT !.pc = "done",
                                            !.patches = Append(@, out),
                                            !.err = IF out = "ok" THEN "nil" ELSE "patch"]]

\* Reconcile returns without touching the store
ReturnOnly(n, rc, e) ==
    /\ rec' = [rec EXCEPT ![n] = [rc EXCEPT !.pc = "done", !.err = e]]
    /\ UNCHANGED store

\* the reconcile goes on into a call of the repository manager
CallManager(n, rc, at, op) ==
    /\ rec' = [rec EXCEPT ![n] = [rc EXCEPT !.pc = at]]
    /\ call' = [call EXCEPT ![<<"w", n>>] = Calling(op, n)]

\* initializeRepo up to ensureRepo
initializeRepo(n, rc) ==
    \E loc \in {"ok", "fail"}, ident \in {"ok", "fail"}, sug \in SuggestedFreqs,
       out \in PatchOutcomes(n) :
        IF loc = "fail"
        THEN /\ PatchAndReturn(n, [rc EXCEPT !.loc = loc],
                               repoNotReady(store[n], LocErr), out)
             /\ UNCHANGED call
        ELSE IF ident = "fail"
        THEN /\ PatchAndReturn(n, [rc EXCEPT !.loc = loc, !.ident = ident,
                                             !.sug = asked(store[n], override, sug)],
                               identFailed(store[n], override, sug), out)
             /\ UNCHANGED call
        ELSE IF out = "fail"
        THEN /\ PatchAndReturn(n, [rc EXCEPT !.loc = loc, !.ident = ident],
                               store[n], out)
             /\ UNCHANGED call
        ELSE /\ store' = [store EXCEPT ![n] = defaulting(@, RepoId(n), override, sug)]
             /\ CallManager(n, [rc EXCEPT !.loc = loc, !.ident = ident,
                                          !.sug = asked(store[n], override, sug),
                                          !.patches = Append(@, out)],
                            "init", "InitRepo")

\* Reconcile from the Get to the first call of the repository manager
Reconcile(n) ==
    /\ rec[n].pc = "idle"
    /\ call[<<"w", n>>].pc = "idle"
    /\ \E get \in GetOutcomes(n) :
         LET rc == [NewRec EXCEPT !.old = store[n], !.start = clock, !.get = get]
         IN CASE get # "ok" -> ReturnOnly(n, rc, getFailed(get)) /\ UNCHANGED call
              [] get = "ok" ->
                    IF store[n].phase \in {PhaseEmpty, PhaseNew}
                    THEN initializeRepo(n, [rc EXCEPT !.path = "initializeRepo"])
                    ELSE /\ CallManager(n, rc, "unlock", "UnlockRepo")
                         /\ UNCHANGED store
    /\ UNCHANGED <<locks, clock, override, pure>>

\* UnlockRepo returned: its error is logged; then the switch on the phase, into
\* runMaintenanceIfDue or checkNotReadyRepo, up to their manager call
AfterUnlockRepo(n) ==
    LET w == <<"w", n>>
        rc == [rec[n] EXCEPT !.ops = Append(@, <<"UnlockRepo", call[w].err>>)]
    IN /\ rec[n].pc = "unlock"
       /\ call[w].pc = "returned"
       /\ CASE staleLockCheck(call[w].err) = "return" ->
                 /\ ReturnOnly(n, rc, "unlock")
                 /\ call' = [call EXCEPT ![w] = Idle]
            [] store[n].phase = PhaseReady ->
                 IF ~dueForMaintenance(store[n], clock)
                 THEN /\ ReturnOnly(n, [rc EXCEPT !.path = "runMaintenanceIfDue", !.now = clock], "nil")
                      /\ call' = [call EXCEPT ![w] = Idle]
                 ELSE /\ CallManager(n, [rc EXCEPT !.path = "runMaintenanceIfDue", !.now = clock],
                                     "prune", "PruneRepo")
                      /\ UNCHANGED store
            [] store[n].phase = PhaseNotReady ->
                 IF ~hasIdentifier(store[n])
                 THEN /\ ReturnOnly(n, [rc EXCEPT !.path = "checkNotReadyRepo"], "nil")
                      /\ call' = [call EXCEPT ![w] = Idle]
                 ELSE /\ CallManager(n, [rc EXCEPT !.path = "checkNotReadyRepo"],
                                     "init", "InitRepo")
                      /\ UNCHANGED store
            [] OTHER -> /\ ReturnOnly(n, rc, "nil")
                        /\ call' = [call EXCEPT ![w] = Idle]
       /\ UNCHANGED <<locks, clock, override, pure>>

\* PrepareRepo after its InitRepo returned: an error goes back through
\* ensureRepo and is patched as NotReady, else ConnectToRepo is called
AfterInitRepo(n) ==
    LET w == <<"w", n>>
        rc == [rec[n] EXCEPT !.ops = Append(@, <<"InitRepo", call[w].err>>)]
    IN /\ rec[n].pc = "init"
       /\ call[w].pc = "returned"
       /\ IF prepareAfterInit(call[w].err) = "return"
          THEN /\ \E out \in PatchOutcomes(n) :
                     PatchAndReturn(n, [rc EXCEPT !.prep = <<call[w].err>>],
                                    repoNotReady(store[n], call[w].err), out)
               /\ call' = [call EXCEPT ![w] = Idle]
          ELSE /\ CallManager(n, rc, "connect", "ConnectToRepo")
               /\ UNCHANGED store
       /\ UNCHANGED <<locks, clock, override, pure>>

\* PrepareRepo returned from ConnectToRepo: initializeRepo and
\* checkNotReadyRepo patch the outcome
AfterConnectToRepo(n) ==
    LET w == <<"w", n>>
        rc == [rec[n] EXCEPT !.ops = Append(@, <<"ConnectToRepo", call[w].err>>),
                             !.prep = <<call[w].err>>]
    IN /\ rec[n].pc = "connect"
       /\ call[w].pc = "returned"
       /\ \E out \in PatchOutcomes(n) :
            PatchAndReturn(n, rc,
                IF call[w].err # NoErr THEN repoNotReady(store[n], call[w].err)
                ELSE IF rc.path = "initializeRepo" THEN initialized(store[n], clock)
                ELSE repoReady(store[n]),
                out)
       /\ call' = [call EXCEPT ![w] = Idle]
       /\ UNCHANGED <<locks, clock, override, pure>>

\* runMaintenanceIfDue after PruneRepo returned
AfterPruneRepo(n) ==
    LET w == <<"w", n>>
        rc == [rec[n] EXCEPT !.ops = Append(@, <<"PruneRepo", call[w].err>>)]
    IN /\ rec[n].pc = "prune"
       /\ call[w].pc = "returned"
       /\ \E out \in PatchOutcomes(n) :
            PatchAndReturn(n, rc,
                IF call[w].err # NoErr THEN pruneFailed(store[n], call[w].err)
                ELSE pruned(store[n], rc.now),
                out)
       /\ call' = [call EXCEPT ![w] = Idle]
       /\ UNCHANGED <<locks, clock, override, pure>>

\* Reconcile has returned; the worker is free for the next request
Return(n) ==
    /\ rec[n].pc = "done"
    /\ rec' = [rec EXCEPT ![n] = NewRec]
    /\ UNCHANGED <<locks, call, store, clock, override, pure>>

\* ---------------------------------------------------------- other callers
\* a caller enters an operation of the manager, or a backup or restore takes
\* its shared hold
ClientCall(c) ==
    /\ call[c].pc = "idle"
    /\ \E op \in Ops \ {"Forget"}, n \in NamesOf(c) :
         call' = [call EXCEPT ![c] = Calling(op, n)]
    /\ UNCHANGED <<locks, store, rec, clock, override, pure>>

\* Forget up to its lock: the cache sync and EnsureRepo come first
Forget(c) ==
    /\ call[c].pc = "idle"
    /\ \E n \in NamesOf(c), snap \in Snapshots, pre \in {"ok", "syncTimeout", "ensureErr"} :
         call' = [call EXCEPT ![c] =
                    IF pre = "ok" THEN [Calling("Forget", n) EXCEPT !.snap = snap]
                    ELSE [Idle EXCEPT !.op = "Forget", !.name = n, !.snap = snap,
                                      !.pc = "returned", !.err = <<"Forget", pre>>]]
    /\ UNCHANGED <<locks, store, rec, clock, override, pure>>

\* the caller has its result
ClientReturn(c) ==
    /\ call[c].pc = "returned"
    /\ call' = [call EXCEPT ![c] = Idle]
    /\ UNCHANGED <<locks, store, rec, clock, override, pure>>

\* ------------------------------------------------------------ environment
Tick ==
    /\ clock < MaxTime
    /\ clock' = clock + 1
    /\ UNCHANGED <<locks, call, store, rec, override, pure>>

\* the resource is deleted by its owner
Delete(n) ==
    /\ store[n].exists
    /\ store' = [store EXCEPT ![n].exists = FALSE]
    /\ UNCHANGED <<locks, call, rec, clock, override, pure>>

\* ---------------------------------------------------------- specification
\* no function is being applied on its own
NoPure == <<>>

\* a resource as the ensurer creates it: no status, no identifier
Created(ph, f) == [exists |-> TRUE, phase |-> ph, message |-> NoMsg, id |-> NoId,
                   freq |-> f, last |-> NoTime]

Init ==
    /\ locks = [n \in Names |-> NoLock]
    /\ call = [p \in Procs |-> Idle]
    /\ store \in [Repos -> {Created(ph, f) : ph \in {PhaseEmpty, PhaseNew}, f \in CreatedFreqs}]
    /\ rec = [n \in Repos |-> NewRec]
    /\ clock = 0
    /\ override \in OverrideFreqs
    /\ pure = NoPure

Next ==
    \/ \E p \in Workers \cup Others : Acquire(p)
    \/ \E p \in Workers \cup Others : Exec(p)
    \/ \E p \in Workers \cup Others : Release(p)
    \/ \E n \in Repos : Reconcile(n)
    \/ \E n \in Repos : AfterUnlockRepo(n)
    \/ \E n \in Repos : AfterInitRepo(n)
    \/ \E n \in Repos : AfterConnectToRepo(n)
    \/ \E n \in Repos : AfterPruneRepo(n)
    \/ \E n \in Repos : Return(n)
    \/ \E c \in Others : ClientCall(c)
    \/ \E c \in Others : Forget(c)
    \/ \E c \in Others : ClientReturn(c)
    \/ Tick
    \/ \E n \in Repos : Delete(n)

\* the reconciler, its repository manager and one competing caller
Spec == Init /\ [][Next]_vars

InitLock ==
    /\ locks = [n \in Names |-> NoLock]
    /\ call = [p \in Procs |-> Idle]
    /\ store = [n \in Repos |-> Created(PhaseEmpty, 0)]
    /\ rec = [n \in Repos |-> NewRec]
    /\ clock = 0
    /\ override = 0
    /\ pure = NoPure

NextLock ==
    \/ \E c \in Clients : ClientCall(c)
    \/ \E c \in Clients : Forget(c)
    \/ \E c \in Clients : Acquire(c)
    \/ \E c \in Clients : Exec(c)
    \/ \E c \in Clients : Release(c)
    \/ \E c \in Clients : ClientReturn(c)

\* the repository manager under concurrent callers, on two names
SpecLock == InitLock /\ [][NextLock]_vars

\* ---- dueForMaintenance on its own: a repository with a last maintenance
\* time and a frequency, a time, the answer once it was asked, and the time
\* at which a maintenance run recorded lastMaintenanceTime
InitDue ==
    /\ locks = [n \in Names |-> NoLock]
    /\ call = [p \in Procs |-> Idle]
    /\ store = [n \in Repos |-> Created(PhaseEmpty, 0)]
    /\ rec = [n \in Repos |-> NewRec]
    /\ clock = 0
    /\ override = 0
    /\ pure \in {[repo |-> [last |-> l, freq |-> f], now |-> t, asked |-> FALSE,
                  due |-> FALSE, set |-> NoTime] :
                    l \in {NoTime} \cup 0..MaxNow, f \in DueFreqs, t \in 0..MaxNow}

\* dueForMaintenance is asked at the current time
AskDue ==
    /\ ~pure.asked
    /\ pure' = [pure EXCEPT !.asked = TRUE, !.due = dueForMaintenance(pure.repo, pure.now)]
    /\ UNCHANGED <<locks, call, store, rec, clock, override>>

\* a maintenance run succeeds and records the current time
Maintain ==
    /\ pure.set = NoTime
    /\ pure' = [pure EXCEPT !.repo = pruned(@, pure.now), !.set = pure.now,
                            !.asked = FALSE, !.due = FALSE]
    /\ UNCHANGED <<locks, call, store, rec, clock, override>>

\* time passes
Later ==
    /\ pure.now < MaxNow
    /\ pure' = [pure EXCEPT !.now = @ + 1, !.asked = FALSE, !.due = FALSE]
    /\ UNCHANGED <<locks, call, store, rec, clock, override>>

NextDue == AskDue \/ Maintain \/ Later

SpecDue == InitDue /\ [][NextDue]_vars

\* ---- Reconcile applied twice under the same outcomes: after any history,
\* two reconciles are counted; the clock stands still, the resource is not
\* deleted, and every question the two reconciles put to the backend or to the
\* store gets the same answer; first is the bookkeeping of the first of them
InitIdem ==
    /\ locks = [n \in Names |-> NoLock]
    /\ call = [p \in Procs |-> Idle]
    /\ store \in [Repos -> {Created(ph, f) : ph \in {PhaseEmpty, PhaseNew}, f \in CreatedFreqs}]
    /\ rec = [n \in Repos |-> NewRec]
    /\ clock = 0
    /\ override \in OverrideFreqs
    /\ pure = [on |-> FALSE, k |-> 0, first |-> NewRec]

\* the answers in the bookkeeping r agree with each other and with those in f:
\* one outcome for every patch, one for the Get, one for the location, one
\* for the identifier, one suggestion, one for each operation of the manager
SameOutcomes(f, r) ==
    /\ \A i, j \in 1..Len(r.patches) : r.patches[i] = r.patches[j]
    /\ (f.patches # <<>> /\ r.patches # <<>>) => r.patches[1] = f.patches[1]
    /\ (f.get # "na" /\ r.get # "na") => r.get = f.get
    /\ (f.loc # "na" /\ r.loc # "na") => r.loc = f.loc
    /\ (f.ident # "na" /\ r.ident # "na") => r.ident = f.ident
    /\ (f.sug # <<>> /\ r.sug # <<>>) => r.sug = f.sug
    /\ \A i \in 1..Len(r.ops), j \in 1..Len(f.ops) :
          r.ops[i][1] = f.ops[j][1] => r.ops[i][2] = f.ops[j][2]

\* a step of the reconcile is either before the counted ones, or one of them
\* and then under the same outcomes
Counted(n) == pure.on => (pure.k < 2 /\ SameOutcomes(pure.first, rec'[n]))

\* the two counted reconciles begin
Begin ==
    /\ ~pure.on
    /\ \A n \in Repos : rec[n].pc = "idle"
    /\ pure' = [pure EXCEPT !.on = TRUE]
    /\ UNCHANGED <<locks, call, store, rec, clock, override>>

\* a counted reconcile has returned
ReturnCounted(n) ==
    /\ pure.on /\ pure.k < 2
    /\ rec[n].pc = "done"
    /\ rec' = [rec EXCEPT ![n] = NewRec]
    /\ pure' = [pure EXCEPT !.k = @ + 1, !.first = IF pure.k = 0 THEN rec[n] ELSE @]
    /\ UNCHANGED <<locks, call, store, clock, override>>

NextIdem ==
    \/ \E n \in Repos : Acquire(<<"w", n>>) /\ Counted(n)
    \/ \E n \in Repos : Exec(<<"w", n>>) /\ Counted(n)
    \/ \E n \in Repos : Release(<<"w", n>>) /\ Counted(n)
    \/ \E n \in Repos : Reconcile(n) /\ Counted(n)
    \/ \E n \in Repos : AfterUnlockRepo(n) /\ Counted(n)
    \/ \E n \in Repos : AfterInitRepo(n) /\ Counted(n)
    \/ \E n \in Repos : AfterConnectToRepo(n) /\ Counted(n)
    \/ \E n \in Repos : AfterPruneRepo(n) /\ Counted(n)
    \/ \E n \in Repos : Return(n) /\ ~pure.on
    \/ Tick /\ ~pure.on
    \/ \E n \in Repos : Delete(n) /\ ~pure.on
    \/ Begin
    \/ \E n \in Repos : ReturnCounted(n)

SpecIdem == InitIdem /\ [][NextIdem]_vars

\* ---- the TLS flag of rm.exec on its own: a storage location (nil, or with
\* or without the config key), the extra flags the command came with, the
\* flags after rm.exec has added its own
insecureSkipTLSVerifyKey == "insecureSkipTLSVerify"
resticInsecureTLSFlag == "--insecure-tls"

\* values of the config key the function is tried on
ConfigValues == {"true", "True", "TRUE", "t", "T", "1",
                 "false", "False", "FALSE", "f", "F", "0",
                 "", "yes", "tRUE", "2"}

\* storage locations: nil, without the key, with the key
NilLocation == [nil |-> TRUE, config |-> {}]
Locations == {NilLocation, [nil |-> FALSE, config |-> {}]}
             \cup {[nil |-> FALSE, config |-> {<<insecureSkipTLSVerifyKey, v>>}] : v \in ConfigValues}

\* the extra flags a command is built with: none, or those of ConnectToRepo
BaseFlags == {<<>>, <<"--latest=1">>}

\* strconv.ParseBool: the value, and whether the string was none of the
\* accepted ones
ParseBool(str) ==
    IF str \in {"1", "t", "T", "TRUE", "true", "True"} THEN [value |-> TRUE, err |-> FALSE]
    ELSE IF str \in {"0", "f", "F", "FALSE", "false", "False"} THEN [value |-> FALSE, err |-> FALSE]
    ELSE [value |-> FALSE, err |-> TRUE]

\* Spec.Config[key]: the empty string when the key is absent
ConfigOf(loc, key) ==
    IF \E kv \in loc.config : kv[1] = key
    THEN (CHOOSE kv \in loc.config : kv[1] = key)[2]
    ELSE ""

\* GetInsecureSkipTLSVerifyFromBSL that answers to the presence of the key
GetInsecureSkipTLSVerifyFromBSLIfPresent(loc) ==
    IF loc.nil THEN ""
    ELSE IF \E kv \in loc.config : kv[1] = insecureSkipTLSVerifyKey
         THEN resticInsecureTLSFlag \o "=true"
         ELSE ""

GetInsecureSkipTLSVerifyFromBSL(loc) ==
    IF loc.nil THEN ""
    ELSE IF ParseBool(ConfigOf(loc, insecureSkipTLSVerifyKey)).value
         THEN resticInsecureTLSFlag \o "=true"
         ELSE ""

InitTLS ==
    /\ locks = [n \in Names |-> NoLock]
    /\ call = [p \in Procs |-> Idle]
    /\ store = [n \in Repos |-> Created(PhaseEmpty, 0)]
    /\ rec = [n \in Repos |-> NewRec]
    /\ clock = 0
    /\ override = 0
    /\ pure \in {[loc |-> l, base |-> b, flags |-> b, skipTLSRet |-> "", at |-> "start"] :
                    l \in Locations, b \in BaseFlags}

\* rm.exec asks for the flag
GetFlag ==
    /\ pure.at = "start"
    /\ pure' = [pure EXCEPT !.skipTLSRet = GetInsecureSkipTLSVerifyFromBSL(pure.loc),
                            !.at = "got"]
    /\ UNCHANGED <<locks, call, store, rec, clock, override>>

\* rm.exec appends the flag when there is one
AppendFlag ==
    /\ pure.at = "got"
    /\ pure' = [pure EXCEPT !.flags = IF pure.skipTLSRet # "" THEN Append(@, pure.skipTLSRet) ELSE @,
                            !.at = "run"]
    /\ UNCHANGED <<locks, call, store, rec, clock, override>>

NextTLS == GetFlag \/ AppendFlag

SpecTLS == InitTLS /\ [][NextTLS]_vars

\* ---- the PVC phase condition of a volume policy on its own: a policy with a
\* phase and labels it asks for, a volume with the phase and labels of its
\* PVC, with or without a PV
PVCPhases == {"", "Pending", "Bound", "Lost"}
NoLabels == {}
TestLabels == {<<"environment", "test">>}
ProdLabels == {<<"environment", "prod">>}
WebTestLabels == {<<"environment", "test">>, <<"app", "web">>}

\* the cases of TestPVCPhaseMatch: condition, volume, expectedMatch
TestPVCPhaseMatch ==
    {[phase |-> "Pending", pvcPhase |-> "Pending", expectedMatch |-> TRUE],
     [phase |-> "Bound",   pvcPhase |-> "Bound",   expectedMatch |-> TRUE],
     [phase |-> "Lost",    pvcPhase |-> "Lost",    expectedMatch |-> TRUE],
     [phase |-> "Pending", pvcPhase |-> "Bound",   expectedMatch |-> FALSE],
     [phase |-> "",        pvcPhase |-> "Pending", expectedMatch |-> TRUE],
     [phase |-> "",        pvcPhase |-> "",        expectedMatch |-> TRUE]}

\* the cases of TestPVCPhaseVolumePolicy (no PV) and of
\* TestPVCPhaseWithPVVolumePolicy (with a PV): policy, PVC, skip
TestPVCPhaseVolumePolicy ==
    {[phase |-> "Pending", labels |-> NoLabels, pvcPhase |-> "Pending", pvcLabels |-> NoLabels, pv |-> FALSE, skip |-> TRUE],
     [phase |-> "Pending", labels |-> NoLabels, pvcPhase |-> "Bound", pvcLabels |-> NoLabels, pv |-> FALSE, skip |-> FALSE],
     [phase |-> "Lost", labels |-> NoLabels, pvcPhase |-> "Lost", pvcLabels |-> NoLabels, pv |-> FALSE, skip |-> TRUE],
     [phase |-> "Bound", labels |-> NoLabels, pvcPhase |-> "Bound", pvcLabels |-> NoLabels, pv |-> FALSE, skip |-> TRUE],
     [phase |-> "Pending", labels |-> TestLabels, pvcPhase |-> "Pending", pvcLabels |-> WebTestLabels, pv |-> FALSE, skip |-> TRUE],
     [phase |-> "Pending", labels |-> ProdLabels, pvcPhase |-> "Pending", pvcLabels |-> WebTestLabels, pv |-> FALSE, skip |-> FALSE],
     [phase |-> "Bound", labels |-> NoLabels, pvcPhase |-> "Bound", pvcLabels |-> NoLabels, pv |-> TRUE, skip |-> TRUE],
     [phase |-> "Pending", labels |-> NoLabels, pvcPhase |-> "Bound", pvcLabels |-> NoLabels, pv |-> TRUE, skip |-> FALSE]}

\* a phase condition that asks for the very phase of the volume
pvcPhaseConditionMatchEqual(c, v) == c.phase = v.pvcPhase

\* pvcPhaseCondition.match
pvcPhaseConditionMatch(c, v) == c.phase = "" \/ c.phase = v.pvcPhase

\* the pvcLabels condition: every label asked for is on the PVC
pvcLabelsConditionMatch(c, v) == c.labels \subseteq v.pvcLabels

\* Policies.GetMatchAction of a policy list with the one skip policy
GetMatchAction(c, v) ==
    IF pvcPhaseConditionMatch(c, v) /\ pvcLabelsConditionMatch(c, v) THEN "skip" ELSE "nil"

InitPVC ==
    /\ locks = [n \in Names |-> NoLock]
    /\ call = [p \in Procs |-> Idle]
    /\ store = [n \in Repos |-> Created(PhaseEmpty, 0)]
    /\ rec = [n \in Repos |-> NewRec]
    /\ clock = 0
    /\ override = 0
    /\ pure \in {[cond |-> [phase |-> cp, labels |-> cl],
                   vol |-> [pvcPhase |-> vp, pvcLabels |-> vl, pv |-> pv],
                   at |-> "start", match |-> FALSE, action |-> "nil"] :
                    cp \in PVCPhases, cl \in {NoLabels, TestLabels, ProdLabels},
                    vp \in PVCPhases, vl \in {NoLabels, WebTestLabels}, pv \in BOOLEAN}

\* the phase condition is matched against the volume
MatchPhase ==
    /\ pure.at = "start"
    /\ pure' = [pure EXCEPT !.at = "matched", !.match = pvcPhaseConditionMatch(pure.cond, pure.vol)]
    /\ UNCHANGED <<locks, call, store, rec, clock, override>>

\* the policies are asked for the action of the volume
MatchAction ==
    /\ pure.at = "matched"
    /\ pure' = [pure EXCEPT !.at = "action", !.action = GetMatchAction(pure.cond, pure.vol)]
    /\ UNCHANGED <<locks, call, store, rec, clock, override>>

NextPVC == MatchPhase \/ MatchAction

SpecPVC == InitPVC /\ [][NextPVC]_vars

\* ---- rm.exec on its own: the command it was handed, the temporary files on
\* disk, the removals it has deferred, the command it ran and the error it
\* returns
ExecInputs == {[cmd |-> Command(op, sn),
                flags |-> IF op = "ConnectToRepo" THEN <<"--latest=1">> ELSE <<>>] :
                  op \in ManagerOps, sn \in Snapshots}

\* the storage locations rm.kbClient.Get answers with
ExecLocations == {[nil |-> FALSE, config |-> {}],
                  [nil |-> FALSE, config |-> {<<insecureSkipTLSVerifyKey, "true">>}]}

\* what the command wrote to stdout and stderr
ExecOutputs == [stdout : {"", "out"}, stderr : {"", "Fatal"}]
NoOutput == [stdout |-> "", stderr |-> ""]

\* os.Remove can fail; exec ignores its error
RemoveOutcomes == {"ok", "err"}

\* an error a collaborator returned, handed on as it is
BareError(cause) == [msg |-> "", cause |-> cause, command |-> <<>>, stdout |-> "", stderr |-> ""]
\* errors.Wrap(err, msg)
Wrap(cause, msg) == [msg |-> msg, cause |-> cause, command |-> <<>>, stdout |-> "", stderr |-> ""]

\* a command error that names the cause only
RunErrorBare(command, out) == BareError("run")

\* errors.Wrapf(err, "error running command=%s, stdout=%s, stderr=%s", ...)
RunError(command, out) ==
    [msg |-> "error running command", cause |-> "run", command |-> command,
     stdout |-> out.stdout, stderr |-> out.stderr]

\* an exec that schedules no removal
deferRemoveNone(d, f) == d

\* defer os.Remove(f)
deferRemove(d, f) == Append(d, f)

ExecStart(in) ==
    [cmd |-> in.cmd, flags |-> in.flags, at |-> "path",
     loc |-> [nil |-> FALSE, config |-> {}], files |-> {}, created |-> {},
     deferred |-> <<>>, removals |-> <<>>, ran |-> <<>>, out |-> NoOutput,
     failed |-> "none", err |-> NoErr]

InitExec ==
    /\ locks = [n \in Names |-> NoLock]
    /\ call = [p \in Procs |-> Idle]
    /\ store = [n \in Repos |-> Created(PhaseEmpty, 0)]
    /\ rec = [n \in Repos |-> NewRec]
    /\ clock = 0
    /\ override = 0
    /\ pure \in {ExecStart(in) : in \in ExecInputs}

\* exec returns err: the deferred removals are still to run
ExecFail(step, e) == [pure EXCEPT !.failed = step, !.err = <<e>>, !.at = "defer"]

\* rm.credentialsFileStore.Path, and the deferred removal of the file
ExecPath ==
    /\ pure.at = "path"
    /\ \E o \in ExecOutcomes :
         pure' = IF o = "ok"
                 THEN [pure EXCEPT !.files = @ \cup {"credentials"},
                                   !.created = @ \cup {"credentials"},
                                   !.deferred = deferRemove(@, "credentials"),
                                   !.at = "location"]
                 ELSE ExecFail("path", BareError("path"))
    /\ UNCHANGED <<locks, call, store, rec, clock, override>>

\* rm.kbClient.Get of the storage location, then TempCACertFile when the
\* location carries a CA certificate, and the deferred removal of that file
ExecLocation ==
    /\ pure.at = "location"
    /\ \E o \in ExecOutcomes, loc \in ExecLocations, cacert \in BOOLEAN, ca \in ExecOutcomes :
         pure' = IF o = "err"
                 THEN ExecFail("location", Wrap("get", "error getting backup storage location"))
                 ELSE IF ~cacert THEN [pure EXCEPT !.loc = loc, !.at = "env"]
                 ELSE IF ca = "err"
                 THEN [ExecFail("cacert", Wrap("cacert", "error creating temp cacert file"))
                          EXCEPT !.loc = loc]
                 ELSE [pure EXCEPT !.loc = loc,
                                   !.files = @ \cup {"cacert"},
                                   !.created = @ \cup {"cacert"},
                                   !.deferred = deferRemove(@, "cacert"),
                                   !.at = "env"]
    /\ UNCHANGED <<locks, call, store, rec, clock, override>>

\* CmdEnv, then the TLS flag of the location
ExecEnv ==
    /\ pure.at = "env"
    /\ \E o \in ExecOutcomes :
         pure' = IF o = "err"
                 THEN ExecFail("env", BareError("env"))
                 ELSE [pure EXCEPT
                         !.flags = IF GetInsecureSkipTLSVerifyFromBSL(pure.loc) # ""
                                   THEN Append(@, GetInsecureSkipTLSVerifyFromBSL(pure.loc))
                                   ELSE @,
                         !.at = "run"]
    /\ UNCHANGED <<locks, call, store, rec, clock, override>>

\* veleroexec.RunCommand(cmd.Cmd()) and the error made of its outcome
ExecRun ==
    /\ pure.at = "run"
    /\ \E o \in ExecOutcomes, out \in ExecOutputs :
         LET command == pure.cmd \o pure.flags
             ran == [pure EXCEPT !.ran = <<command>>, !.out = out, !.at = "defer"]
         IN pure' = IF o = "ok" THEN ran
                    ELSE [ran EXCEPT !.failed = "command", !.err = <<RunError(command, out)>>]
    /\ UNCHANGED <<locks, call, store, rec, clock, override>>

\* a deferred os.Remove runs, last deferred first; its error is dropped
ExecRemove ==
    /\ pure.at = "defer"
    /\ pure.deferred # <<>>
    /\ \E o \in RemoveOutcomes :
         LET f == pure.deferred[Len(pure.deferred)]
         IN pure' = [pure EXCEPT !.deferred = SubSeq(@, 1, Len(@) - 1),
                                 !.removals = Append(@, <<f, o>>),
                                 !.files = IF o = "ok" THEN @ \ {f} ELSE @]
    /\ UNCHANGED <<locks, call, store, rec, clock, override>>

\* exec has returned to its caller
ExecReturn ==
    /\ pure.at = "defer"
    /\ pure.deferred = <<>>
    /\ pure' = [pure EXCEPT !.at = "returned"]
    /\ UNCHANGED <<locks, call, store, rec, clock, override>>

NextExec == ExecPath \/ ExecLocation \/ ExecEnv \/ ExecRun \/ ExecRemove \/ ExecReturn

SpecExec == InitExec /\ [][NextExec]_vars

\* ---- the reconciler under periodic resync, in an environment that heals:
\* from then on the resource is there, the API server answers Get and Patch,
\* and InitRepo and ConnectToRepo return nil
Ailing == [healthy |-> FALSE]
Healed == [healthy |-> TRUE]

InitLive ==
    /\ locks = [n \in Names |-> NoLock]
    /\ call = [p \in Procs |-> Idle]
    /\ store = [n \in Repos |-> Created(PhaseEmpty, 0)]
    /\ rec = [n \in Repos |-> NewRec]
    /\ clock = 0
    /\ override = 0
    /\ pure = Ailing

Heal ==
    /\ pure = Ailing
    /\ pure' = Healed
    /\ UNCHANGED <<locks, call, store, rec, clock, override>>

\* a step of the healed environment: no resource is deleted, a reconcile
\* records no failed Get and no failed Patch, and the worker's InitRepo and
\* ConnectToRepo return nil
Sound ==
    pure = Healed =>
        \A n \in Repos :
            LET w == <<"w", n>>
            IN /\ store'[n].exists = store[n].exists
               /\ rec'[n] # rec[n] =>
                     /\ rec'[n].get # "err"
                     /\ \A i \in 1..Len(rec'[n].patches) : rec'[n].patches[i] = "ok"
               /\ (call[w].pc = "exec" /\ call'[w].pc = "unlock"
                     /\ call[w].op \in {"InitRepo", "ConnectToRepo"}) =>
                     call'[w].err = NoErr

NextLive == Heal \/ (Next /\ Sound)

\* the steps of the worker of n but for taking a lock: the periodic request,
\* the command, the deferred unlock, the code after each manager call
WorkerStep(n) ==
    /\ \/ Reconcile(n) \/ AfterUnlockRepo(n) \/ AfterInitRepo(n)
       \/ AfterConnectToRepo(n) \/ AfterPruneRepo(n) \/ Return(n)
       \/ Exec(<<"w", n>>) \/ Release(<<"w", n>>)
    /\ Sound

\* another caller finishes its command and releases its lock
OtherStep == \E p \in Others : Exec(p) \/ Release(p)

\* the resync enqueues every repository again and again and a worker runs
\* each request to its end; a lock that is released again and again is
\* taken by the worker that waits for it; commands of other callers end
FairLive ==
    /\ \A n \in Repos : WF_vars(WorkerStep(n))
    /\ \A n \in Repos : SF_vars(Acquire(<<"w", n>>))
    /\ WF_vars(OtherStep)

SpecLive == InitLive /\ [][NextLive]_vars /\ FairLive

TypeOK ==
    /\ \A n \in Names : locks[n].r \in 0..Cardinality(Procs) /\ locks[n].w \in BOOLEAN
    /\ \A p \in Procs : call[p].pc \in {"idle", "lock", "exec", "unlock", "returned"}
    /\ clock \in 0..MaxTime

\* -------------------------------------------------------------- properties
\* the operations that must exclude every other holder, and those that share
ExclusiveOps == {"InitRepo", "PruneRepo", "Forget"}
SharedOps == {"ConnectToRepo", "UnlockRepo", "Backup"}

\* p is between its lock and its unlock on name n
Holds(p, n) == call[p].pc \in {"exec", "unlock"} /\ call[p].name = n
\* p has called an operation on name n and waits for the lock
Waits(p, n) == call[p].pc = "lock" /\ call[p].name = n
ExclusiveHolders(n) == {p \in Procs : Holds(p, n) /\ call[p].op \in ExclusiveOps}
SharedHolders(n) == {p \in Procs : Holds(p, n) /\ call[p].op \in SharedOps}

\* C1: on every name, at most one of InitRepo, PruneRepo and Forget is between
\* its lock and its unlock at any time
C1_ExclusiveNeverOverlap ==
    \A n \in Names : Cardinality(ExclusiveHolders(n)) <= 1

\* an exclusive holder runs its command while a second exclusive operation on
\* the same name waits
C1_Witness ==
    \E n \in Names : \E p, q \in Procs :
        /\ p # q
        /\ p \in ExclusiveHolders(n) /\ call[p].pc = "exec"
        /\ Waits(q, n) /\ call[q].op \in ExclusiveOps

\* C2: on every name, no exclusive operation is between its lock and its
\* unlock while a shared holder is, and no acquisition steps in beside a
\* holder it must exclude
C2_ExclusiveExcludesShared ==
    [][\A n \in Names :
         /\ ~(ExclusiveHolders(n) # {} /\ SharedHolders(n) # {})
         /\ \A p \in Procs :
              (Waits(p, n) /\ Holds(p, n)') =>
                 IF call[p].op \in ExclusiveOps
                 THEN ExclusiveHolders(n) = {} /\ SharedHolders(n) = {}
                 ELSE ExclusiveHolders(n) = {}]_vars

\* a shared holder is inside on a name while an exclusive operation waits for
\* it and cannot go on
C2_Witness ==
    \E n \in Names : \E p, q \in Procs :
        /\ p \in SharedHolders(n)
        /\ Waits(q, n) /\ call[q].op \in ExclusiveOps
        /\ ~ENABLED Acquire(q)

\* C3: a shared operation that waits for a name on which no exclusive
\* operation holds or waits can take its lock, whatever shared holders there are
C3_SharedNotBlockedByShared ==
    \A p \in Procs : \A n \in Names :
        (/\ Waits(p, n) /\ call[p].op \in SharedOps
         /\ \A q \in Procs : (Holds(q, n) \/ Waits(q, n)) => call[q].op \in SharedOps)
        => ENABLED Acquire(p)

\* two shared holders are inside on one name at the same time
C3_Witness ==
    \E n \in Names : Cardinality(SharedHolders(n)) >= 2

\* C4: an operation that waits for name B can take its lock whenever nobody
\* holds B, whatever is held or awaited on the other names
C4_NamesIndependent ==
    \A p \in Procs : \A n \in Names :
        (Waits(p, n) /\ \A q \in Procs : ~Holds(q, n)) => ENABLED Acquire(p)

\* PruneRepo holds one name while an exclusive operation on the other name
\* waits and can go on
C4_Witness ==
    \E p, q \in Procs :
        /\ Holds(p, "r1") /\ call[p].op = "PruneRepo" /\ call[p].pc = "exec"
        /\ Waits(q, "r2") /\ call[q].op \in ExclusiveOps
        /\ ENABLED Acquire(q)

\* C5: the mutex of every name is held exactly by the operations between
\* their lock and their unlock, in their mode: an operation that returned,
\* with or without an error, holds nothing, and with no operation in flight
\* every mutex is free
C5_ReleasedOnEveryPath ==
    \A n \in Names :
        /\ locks[n].w = (ExclusiveHolders(n) # {})
        /\ locks[n].r = Cardinality(SharedHolders(n))

\* an exclusive operation returned the error of its command, a shared one
\* returned without error, and the mutexes are free
C5_Witness ==
    \E p, q \in Procs :
        /\ call[p].pc = "returned" /\ call[p].op \in ExclusiveOps
        /\ call[p].err = <<call[p].op, "err">>
        /\ call[q].pc = "returned" /\ call[q].op \in SharedOps /\ call[q].err = NoErr
        /\ \A n \in Names : locks[n] = [made |-> TRUE, r |-> 0, w |-> FALSE]

\* the reconcile of resource n has returned and the next has not begun
Done(n) == rec[n].pc = "done"
\* the manager calls the reconcile made, as (operation, error) pairs
Made(n) == {rec[n].ops[i] : i \in 1..Len(rec[n].ops)}
Invoked(n, op) == \E c \in Made(n) : c[1] = op
PrepareInvoked(n) == Invoked(n, "InitRepo") \/ Invoked(n, "ConnectToRepo")
\* PrepareRepo returned nil: init and connect both did
PrepareSucceeded(n) == <<"InitRepo", NoErr>> \in Made(n) /\ <<"ConnectToRepo", NoErr>> \in Made(n)
\* the errors PrepareRepo returned
PrepareErrs(n) == {c[2] : c \in {d \in Made(n) : d[1] \in {"InitRepo", "ConnectToRepo"} /\ d[2] # NoErr}}
PruneErrs(n) == {c[2] : c \in {d \in Made(n) : d[1] = "PruneRepo" /\ d[2] # NoErr}}
\* every patch the reconcile sent was accepted
PatchesOK(n) == \A i \in 1..Len(rec[n].patches) : rec[n].patches[i] = "ok"
\* the reconcile read a resource in phase New (empty or "New")
ReadNew(n) == Done(n) /\ rec[n].path = "initializeRepo" /\ rec[n].old.phase \in {PhaseEmpty, PhaseNew}
\* the reconcile read a resource in the given phase, other than New
Read(n, ph) == Done(n) /\ rec[n].err # "get" /\ rec[n].old.exists /\ rec[n].old.phase = ph

\* C6 as stated: a reconcile of a New repository whose location resolves and
\* whose PrepareRepo succeeds ends Ready, with lastMaintenanceTime a time of
\* the reconcile and the message empty
C6_Original ==
    \A n \in Repos :
        (ReadNew(n) /\ rec[n].loc = "ok" /\ PrepareSucceeded(n)) =>
            /\ store[n].phase = PhaseReady
            /\ store[n].last # NoTime
            /\ rec[n].start <= store[n].last /\ store[n].last <= clock
            /\ store[n].message = NoMsg

\* C6 amended: the same when the patches of the resource succeed; when the
\* last patch fails the phase is left New, lastMaintenanceTime unset and
\* Reconcile returns the error
C6_NewToReady ==
    \A n \in Repos :
        (ReadNew(n) /\ rec[n].loc = "ok" /\ PrepareSucceeded(n)) =>
            IF PatchesOK(n)
            THEN /\ store[n].phase = PhaseReady
                 /\ store[n].last # NoTime
                 /\ rec[n].start <= store[n].last /\ store[n].last <= clock
                 /\ store[n].message = NoMsg
                 /\ rec[n].err = "nil"
            ELSE /\ store[n].phase = rec[n].old.phase
                 /\ store[n].last = NoTime
                 /\ rec[n].err = "patch"

\* a New repository went Ready in a reconcile during which the clock moved
C6_Witness ==
    \E n \in Repos :
        /\ ReadNew(n) /\ rec[n].loc = "ok" /\ PrepareSucceeded(n) /\ PatchesOK(n)
        /\ store[n].phase = PhaseReady
        /\ store[n].last = clock /\ rec[n].start < clock

\* C7 as stated: a reconcile of a New repository whose storage location
\* cannot be looked up ends NotReady with a message and no identifier, and
\* PrepareRepo is not invoked
C7_Original ==
    \A n \in Repos :
        (ReadNew(n) /\ rec[n].loc = "fail") =>
            /\ store[n].phase = PhaseNotReady
            /\ store[n].message # NoMsg
            /\ store[n].id = NoId
            /\ ~PrepareInvoked(n)

\* C7 amended: the identifier is left as it was (unset, unless an earlier
\* reconcile persisted it and then failed to patch the phase) and PrepareRepo
\* is not invoked; the phase is NotReady with the lookup error as message
\* when the patch succeeds, and phase and message are left as they were when
\* it fails
C7_LocationUnresolvable ==
    \A n \in Repos :
        (ReadNew(n) /\ rec[n].loc = "fail") =>
            /\ store[n].id = rec[n].old.id
            /\ ~PrepareInvoked(n)
            /\ IF PatchesOK(n)
               THEN store[n].phase = PhaseNotReady /\ store[n].message = LocErr /\ LocErr # NoMsg
               ELSE /\ store[n].phase = rec[n].old.phase
                    /\ store[n].message = rec[n].old.message
                    /\ rec[n].err = "patch"

\* a New repository whose location lookup failed was patched NotReady
C7_Witness ==
    \E n \in Repos :
        /\ ReadNew(n) /\ rec[n].loc = "fail" /\ PatchesOK(n)
        /\ rec[n].patches = <<"ok">>
        /\ store[n].phase = PhaseNotReady
        /\ store[n].id = NoId

\* C8 as stated: a reconcile of a Ready repository due for maintenance whose
\* PruneRepo fails leaves the phase Ready, sets the message to the prune
\* error and leaves lastMaintenanceTime as it was
C8_Original ==
    \A n \in Repos :
        (Read(n, PhaseReady) /\ dueForMaintenance(rec[n].old, rec[n].now) /\ PruneErrs(n) # {}) =>
            /\ store[n].phase = PhaseReady
            /\ store[n].message \in PruneErrs(n)
            /\ store[n].last = rec[n].old.last

\* C8 amended: phase stays Ready and lastMaintenanceTime is unchanged; the
\* message is the prune error when the patch succeeds and is left as it was
\* when the patch fails
C8_PruneFailureKeepsReady ==
    \A n \in Repos :
        (Read(n, PhaseReady) /\ dueForMaintenance(rec[n].old, rec[n].now) /\ PruneErrs(n) # {}) =>
            /\ store[n].phase = PhaseReady
            /\ store[n].last = rec[n].old.last
            /\ IF PatchesOK(n)
               THEN store[n].message \in PruneErrs(n)
               ELSE store[n].message = rec[n].old.message /\ rec[n].err = "patch"

\* a Ready repository with a maintenance time in the past was pruned, the
\* prune failed and the error was patched into the message
C8_Witness ==
    \E n \in Repos :
        /\ Read(n, PhaseReady) /\ PruneErrs(n) # {} /\ PatchesOK(n)
        /\ rec[n].old.last # NoTime
        /\ rec[n].old.message = NoMsg
        /\ store[n].message = <<"PruneRepo", "err">>

\* C9 as stated: a reconcile of a NotReady repository with an identifier
\* whose PrepareRepo succeeds ends Ready with an empty message
C9_Original ==
    \A n \in Repos :
        (Read(n, PhaseNotReady) /\ rec[n].old.id # NoId /\ PrepareSucceeded(n)) =>
            store[n].phase = PhaseReady /\ store[n].message = NoMsg

\* C9 amended: the same when the patch succeeds; when it fails the resource
\* stays NotReady with its old message and Reconcile returns the error
C9_NotReadyToReady ==
    \A n \in Repos :
        (Read(n, PhaseNotReady) /\ rec[n].old.id # NoId /\ PrepareSucceeded(n)) =>
            IF PatchesOK(n)
            THEN store[n].phase = PhaseReady /\ store[n].message = NoMsg
            ELSE /\ store[n].phase = PhaseNotReady
                 /\ store[n].message = rec[n].old.message
                 /\ rec[n].err = "patch"

\* a NotReady repository that carried an error message went Ready
C9_Witness ==
    \E n \in Repos :
        /\ Read(n, PhaseNotReady) /\ rec[n].old.id # NoId /\ PrepareSucceeded(n)
        /\ PatchesOK(n)
        /\ rec[n].old.message # NoMsg
        /\ store[n].phase = PhaseReady

\* C10 as stated: a reconcile of a NotReady repository with an identifier
\* whose PrepareRepo fails leaves it NotReady with the new error as message
\* and identifier, frequency and lastMaintenanceTime as they were
C10_Original ==
    \A n \in Repos :
        (Read(n, PhaseNotReady) /\ rec[n].old.id # NoId /\ PrepareErrs(n) # {}) =>
            /\ store[n].phase = PhaseNotReady
            /\ store[n].message \in PrepareErrs(n)
            /\ store[n].id = rec[n].old.id
            /\ store[n].freq = rec[n].old.freq
            /\ store[n].last = rec[n].old.last

\* C10 amended: phase NotReady, identifier, frequency and lastMaintenanceTime
\* unchanged; the message is the new error when the patch succeeds and is
\* left as it was when the patch fails
C10_NotReadyStays ==
    \A n \in Repos :
        (Read(n, PhaseNotReady) /\ rec[n].old.id # NoId /\ PrepareErrs(n) # {}) =>
            /\ store[n].phase = PhaseNotReady
            /\ store[n].id = rec[n].old.id
            /\ store[n].freq = rec[n].old.freq
            /\ store[n].last = rec[n].old.last
            /\ IF PatchesOK(n)
               THEN store[n].message \in PrepareErrs(n)
               ELSE store[n].message = rec[n].old.message /\ rec[n].err = "patch"

\* a NotReady repository whose message was the init error now carries the
\* connect error
C10_Witness ==
    \E n \in Repos :
        /\ Read(n, PhaseNotReady) /\ rec[n].old.id # NoId /\ PatchesOK(n)
        /\ rec[n].old.message = <<"InitRepo", "err">>
        /\ PrepareErrs(n) = {<<"ConnectToRepo", "err">>}
        /\ store[n].message = <<"ConnectToRepo", "err">>

\* C11: a reconcile whose Get finds the resource gone returns no error, calls
\* no operation of the repository manager and sends no patch
C11_DeletedIsNoOp ==
    \A n \in Repos :
        (Done(n) /\ rec[n].get = "notFound") =>
            /\ rec[n].err = "nil"
            /\ rec[n].ops = <<>>
            /\ rec[n].patches = <<>>
            /\ call[<<"w", n>>] = Idle
            /\ store[n] = rec[n].old

\* a reconcile of a repository that had been Ready and was deleted returned
C11_Witness ==
    \E n \in Repos :
        /\ Done(n) /\ rec[n].get = "notFound"
        /\ ~store[n].exists /\ store[n].phase = PhaseReady

C13_Original ==
    \A n \in Repos :
        (Read(n, PhaseNotReady) /\ rec[n].old.id = NoId) => rec[n].loc \in {"ok", "fail"}

\* C14: dueForMaintenance(repo, now) is true exactly when lastMaintenanceTime
\* is unset or lastMaintenanceTime + frequency is strictly before now
C14_DueExactly ==
    pure.asked =>
        (pure.due <=> (pure.repo.last = NoTime \/ pure.repo.last + pure.repo.freq < pure.now))

\* asked at the instant lastMaintenanceTime + frequency, with a positive
\* frequency: not due
C14_Witness ==
    /\ pure.asked /\ pure.repo.last # NoTime /\ pure.repo.freq > 0
    /\ pure.repo.last + pure.repo.freq = pure.now /\ ~pure.due

\* C15 as stated: with a positive frequency, after a maintenance run recorded
\* lastMaintenanceTime = t the repository is not due at t and is due exactly
\* from the instant t + frequency on
C15_Original ==
    (pure.asked /\ pure.set # NoTime /\ pure.repo.freq > 0) =>
        /\ pure.now = pure.set => ~pure.due
        /\ pure.due <=> pure.now >= pure.set + pure.repo.freq

\* C15 amended: not due at t, not due up to and including the instant
\* t + frequency, due at every later time
C15_DueStrictlyAfter ==
    (pure.asked /\ pure.set # NoTime /\ pure.repo.freq > 0) =>
        /\ pure.now = pure.set => ~pure.due
        /\ pure.due <=> pure.now > pure.set + pure.repo.freq

\* a repository maintained at t is asked after t + frequency and is due
C15_Witness ==
    /\ pure.asked /\ pure.set # NoTime /\ pure.repo.freq > 0
    /\ pure.now = pure.set + pure.repo.freq + 1 /\ pure.due

\* the frequency initializeRepo writes over a non-positive one: the override
\* when positive, else the suggestion when it came without error and is
\* positive, else one week
Defaulted(n) ==
    IF override > 0 THEN override
    ELSE IF rec[n].sug # <<>> /\ ~rec[n].sug[1].err /\ rec[n].sug[1].freq > 0
         THEN rec[n].sug[1].freq
         ELSE 7

\* C16: an initialization that read a non-positive frequency and whose first
\* patch succeeded has persisted the override when positive, else the
\* backend's suggestion when it came without error and is positive, else one
\* week; the value is positive
C16_FrequencyDefaulted ==
    \A n \in Repos :
        (ReadNew(n) /\ rec[n].loc = "ok" /\ rec[n].old.freq <= 0
           /\ rec[n].patches # <<>> /\ rec[n].patches[1] = "ok") =>
            /\ store[n].freq = Defaulted(n)
            /\ store[n].freq > 0

\* the suggestion came with an error and was positive: one week was persisted
C16_Witness ==
    \E n \in Repos :
        /\ ReadNew(n) /\ rec[n].loc = "ok" /\ rec[n].old.freq <= 0
        /\ rec[n].patches # <<>> /\ rec[n].patches[1] = "ok"
        /\ rec[n].sug = <<[freq |-> 3, err |-> TRUE]>>
        /\ store[n].freq = defaultMaintainFrequency

\* some patch of the reconcile failed
PatchFailed(n) == \E i \in 1..Len(rec[n].patches) : rec[n].patches[i] = "fail"
\* the manager calls of the reconcile that returned an error
FailedOps(n) == {c[1] : c \in {d \in Made(n) : d[2] # NoErr}}

\* C17: Reconcile returns an error exactly when its Get failed with something
\* other than not-found or one of its patches failed; a failed UnlockRepo,
\* InitRepo, ConnectToRepo or PruneRepo alone never makes it return one
C17_ErrorOnlyFromGetOrPatch ==
    \A n \in Repos :
        Done(n) => (rec[n].err # "nil" <=> (rec[n].get = "err" \/ PatchFailed(n)))

\* a reconcile in which UnlockRepo and PruneRepo both failed returned nil
C17_Witness ==
    \E n \in Repos :
        /\ Done(n) /\ rec[n].err = "nil"
        /\ FailedOps(n) = {"UnlockRepo", "PruneRepo"}

\* C18: a reconcile in which a patch failed returns an error; when the
\* defaulting patch of initializeRepo fails, no operation of the manager is
\* invoked and phase, identifier and frequency are left as read
C18_PatchFailureReturned ==
    \A n \in Repos :
        /\ (Done(n) /\ PatchFailed(n)) => rec[n].err # "nil"
        /\ (ReadNew(n) /\ rec[n].ident = "ok" /\ rec[n].patches = <<"fail">>) =>
              /\ rec[n].ops = <<>>
              /\ store[n].phase = rec[n].old.phase
              /\ store[n].id = rec[n].old.id
              /\ store[n].freq = rec[n].old.freq

\* the defaulting patch failed on a resource that still exists
C18_Witness ==
    \E n \in Repos :
        /\ ReadNew(n) /\ rec[n].ident = "ok" /\ rec[n].patches = <<"fail">>
        /\ store[n].exists /\ store[n].id = NoId /\ rec[n].err = "patch"

\* where the reconcile goes after the stale-lock check, from the resource
\* and the clock alone
AfterCheck(n) ==
    CASE store[n].phase = PhaseReady ->
            IF store[n].last = NoTime \/ store[n].last + store[n].freq < clock
            THEN "prune" ELSE "done"
      [] store[n].phase = PhaseNotReady ->
            IF store[n].id = NoId THEN "done" ELSE "init"
      [] OTHER -> "done"

\* C19: the step that follows the stale-lock check leaves the resource as it
\* is, returns no error and goes where the phase alone sends it, whether the
\* check failed or not
C19_StaleLockFailureIgnored ==
    [][\A n \in Repos :
          (rec[n].pc = "unlock" /\ rec'[n].pc # "unlock") =>
              /\ store' = store
              /\ rec'[n].err = "nil"
              /\ rec'[n].pc = AfterCheck(n)
              /\ rec'[n].ops = <<<<"UnlockRepo", call[<<"w", n>>].err>>>>]_vars

\* the stale-lock check failed and the reconcile went on into PruneRepo
C19_Witness ==
    \E n \in Repos :
        /\ rec[n].pc = "prune"
        /\ rec[n].ops = <<<<"UnlockRepo", <<"UnlockRepo", "err">>>>>>

\* C20 as stated: the worker's UnlockRepo never waits for its lock
C20_Original ==
    \A n \in Repos :
        (Waits(<<"w", n>>, n) /\ call[<<"w", n>>].op = "UnlockRepo") =>
            ENABLED Acquire(<<"w", n>>)

\* C20 amended: the worker's UnlockRepo takes its lock without waiting when
\* no exclusive operation holds or awaits the lock on the name, also while
\* shared operations hold it; it waits while an exclusive operation holds it
C20_StaleLockCheckShared ==
    \A n \in Repos :
        (Waits(<<"w", n>>, n) /\ call[<<"w", n>>].op = "UnlockRepo") =>
            /\ (\A p \in Procs : (Holds(p, n) \/ Waits(p, n)) => call[p].op \notin ExclusiveOps)
                  => ENABLED Acquire(<<"w", n>>)
            /\ ExclusiveHolders(n) # {} => ~ENABLED Acquire(<<"w", n>>)

\* the worker's UnlockRepo waits while another caller's PruneRepo runs
C20_Witness ==
    \E n \in Repos, p \in Others :
        /\ Waits(<<"w", n>>, n) /\ call[<<"w", n>>].op = "UnlockRepo"
        /\ Holds(p, n) /\ call[p].op = "PruneRepo"
        /\ ~ENABLED Acquire(<<"w", n>>)

ForgetPreErrs == {<<"Forget", "syncTimeout">>, <<"Forget", "ensureErr">>}

\* C22: a Forget whose cache sync or EnsureRepo fails returns that error
\* straight away, with no lock taken and no command run; otherwise the one
\* command it runs is the forget command of the named snapshot, run while it
\* holds the exclusive lock of the resolved repository's name, alone
C22_ForgetResolvesFirst ==
    [][\A c \in Clients :
          call'[c].op = "Forget" =>
              /\ call'[c].err \in ForgetPreErrs =>
                    /\ call'[c].ran = <<>>
                    /\ call[c].pc = "idle" => (call'[c].pc = "returned" /\ locks' = locks)
                    /\ call[c].pc # "idle" => call[c].err \in ForgetPreErrs
              /\ (call[c].pc = "idle" /\ call'[c].pc = "returned") =>
                    call'[c].err \in ForgetPreErrs
              /\ call'[c].ran # call[c].ran =>
                    /\ call'[c].ran = <<"forget", call[c].snap>>
                    /\ call[c].ran = <<>>
                    /\ call[c].err \notin ForgetPreErrs
                    /\ locks[call[c].name].w /\ locks[call[c].name].r = 0
                    /\ ExclusiveHolders(call[c].name) = {c}
                    /\ locks' = locks]_vars

\* a Forget of snapshot s2 has returned after its command ran, and another
\* returned the EnsureRepo error
C22_Witness ==
    \E c, d \in Clients :
        /\ call[c].op = "Forget" /\ call[c].pc = "returned"
        /\ call[c].ran = <<"forget", "s2">> /\ call[c].err = NoErr
        /\ call[d].op = "Forget" /\ call[d].pc = "returned"
        /\ call[d].err = <<"Forget", "ensureErr">> /\ call[d].ran = <<>>

\* the fields of the resource that make its state
Resource(r) == <<r.phase, r.message, r.id, r.freq, r.last>>

\* C23 as stated: under the same outcomes and clock, the second of two
\* reconciles leaves the resource as the first left it
C23_Original ==
    \A n \in Repos :
        (pure.on /\ pure.k = 1 /\ Done(n)) => Resource(store[n]) = Resource(rec[n].old)

\* C23 amended: the second reconcile leaves the resource as the first left
\* it, except after a first reconcile that made a NotReady repository Ready,
\* where the second runs the maintenance that is due, and after a first
\* reconcile that made a New repository with a persisted identifier NotReady
\* on a failed resolution, where the second attempts PrepareRepo
C23_IdempotentButForPhaseChange ==
    \A n \in Repos :
        (pure.on /\ pure.k = 1 /\ Done(n)) =>
            \/ Resource(store[n]) = Resource(rec[n].old)
            \/ /\ pure.first.old.phase = PhaseNotReady /\ rec[n].old.phase = PhaseReady
               /\ Invoked(n, "PruneRepo")
               /\ store[n].phase = PhaseReady /\ store[n].id = rec[n].old.id
               /\ store[n].freq = rec[n].old.freq
            \/ /\ pure.first.old.phase \in {PhaseEmpty, PhaseNew} /\ pure.first.old.id # NoId
               /\ "fail" \in {pure.first.loc, pure.first.ident}
               /\ rec[n].old.phase = PhaseNotReady
               /\ PrepareInvoked(n)
               /\ store[n].id = rec[n].old.id /\ store[n].freq = rec[n].old.freq
               /\ store[n].last = rec[n].old.last

\* the first reconcile made a New repository Ready, the second only checked
\* for stale locks and changed nothing
C23_Witness ==
    \E n \in Repos :
        /\ pure.on /\ pure.k = 1 /\ Done(n)
        /\ pure.first.old.phase = PhaseNew /\ rec[n].old.phase = PhaseReady
        /\ rec[n].ops = <<<<"UnlockRepo", NoErr>>>> /\ rec[n].patches = <<>>
        /\ store[n] = rec[n].old

\* the location asks to skip TLS verification: it is not nil and its config
\* holds the key with a value that is one of the spellings of true
AsksInsecure(loc) ==
    /\ ~loc.nil
    /\ \E kv \in loc.config :
          kv[1] = "insecureSkipTLSVerify" /\ kv[2] \in {"1", "t", "T", "TRUE", "true", "True"}

\* C24: the command is run with --insecure-tls=true appended once to the
\* flags it came with when the location asks to skip TLS verification, and
\* with the flags it came with, no TLS flag among them, in every other case
C24_InsecureTLSFlag ==
    pure.at = "run" =>
        IF AsksInsecure(pure.loc)
        THEN pure.flags = Append(pure.base, "--insecure-tls=true")
        ELSE pure.flags = pure.base

\* a location with the value "1" got the flag after the flag of ConnectToRepo
C24_Witness ==
    /\ pure.at = "run"
    /\ pure.loc.config = {<<"insecureSkipTLSVerify", "1">>}
    /\ pure.flags = <<"--latest=1", "--insecure-tls=true">>

CountOps(n, op) == Cardinality({i \in 1..Len(rec[n].ops) : rec[n].ops[i][1] = op})

\* C27: a reconcile that read Ready or NotReady called UnlockRepo once, before
\* every other call; one that read New did not call it; PruneRepo is called
\* only after reading Ready and only when lastMaintenanceTime was unset or
\* lastMaintenanceTime + frequency was before the time read by the
\* maintenance step; lastMaintenanceTime changes only to that time and only
\* when PruneRepo succeeded
C27_UnlockFirstPruneWhenDue ==
    \A n \in Repos :
        /\ (Read(n, PhaseReady) \/ Read(n, PhaseNotReady)) =>
              /\ CountOps(n, "UnlockRepo") = 1
              /\ rec[n].ops[1][1] = "UnlockRepo"
              /\ store[n].last # rec[n].old.last =>
                    /\ <<"PruneRepo", NoErr>> \in Made(n)
                    /\ store[n].last = rec[n].now
        /\ ReadNew(n) => CountOps(n, "UnlockRepo") = 0
        /\ (Done(n) /\ Invoked(n, "PruneRepo")) =>
              /\ rec[n].old.phase = PhaseReady
              /\ CountOps(n, "PruneRepo") = 1
              /\ rec[n].start <= rec[n].now
              /\ \/ rec[n].old.last = NoTime
                 \/ rec[n].old.last + rec[n].old.freq < rec[n].now

\* a Ready repository maintained before was pruned again when its time had
\* come, and lastMaintenanceTime moved
C27_Witness ==
    \E n \in Repos :
        /\ Read(n, PhaseReady) /\ rec[n].old.last # NoTime
        /\ rec[n].ops = <<<<"UnlockRepo", NoErr>>, <<"PruneRepo", NoErr>>>>
        /\ store[n].last = rec[n].now /\ store[n].last > rec[n].old.last

\* C28 as stated: a reconcile of a NotReady repository without identifier
\* runs no operation of the backend, changes no field and returns no error
C28_Original ==
    \A n \in Repos :
        (Read(n, PhaseNotReady) /\ rec[n].old.id = NoId) =>
            /\ rec[n].ops = <<>>
            /\ Resource(store[n]) = Resource(rec[n].old)
            /\ rec[n].err = "nil"

\* C28 amended: it runs the stale-lock check UnlockRepo and nothing else,
\* sends no patch, changes no field and returns no error, whatever the check
\* returned
C28_NotReadyWithoutIdentifier ==
    \A n \in Repos :
        (Read(n, PhaseNotReady) /\ rec[n].old.id = NoId) =>
            /\ Len(rec[n].ops) = 1 /\ rec[n].ops[1][1] = "UnlockRepo"
            /\ rec[n].patches = <<>>
            /\ Resource(store[n]) = Resource(rec[n].old)
            /\ rec[n].err = "nil"

\* the stale-lock check of a NotReady repository without identifier failed
\* and the reconcile returned nil
C28_Witness ==
    \E n \in Repos :
        /\ Read(n, PhaseNotReady) /\ rec[n].old.id = NoId
        /\ rec[n].ops = <<<<"UnlockRepo", <<"UnlockRepo", "err">>>>>>
        /\ rec[n].err = "nil"

\* C29 as stated: when GetRepoIdentifier fails in the reconcile of a New
\* repository, the phase is NotReady, the message the error, the identifier
\* unset, PrepareRepo not invoked, and a non-positive frequency made positive
C29_Original ==
    \A n \in Repos :
        (ReadNew(n) /\ rec[n].ident = "fail") =>
            /\ store[n].phase = PhaseNotReady
            /\ store[n].message = IdentErr
            /\ store[n].id = NoId
            /\ ~PrepareInvoked(n)
            /\ rec[n].old.freq <= 0 => store[n].freq > 0

\* C29 amended: PrepareRepo is not invoked and the identifier is left as it
\* was; when the patch succeeds the phase is NotReady, the message the error
\* and a non-positive frequency is replaced by the positive default; when the
\* patch fails nothing is changed and Reconcile returns the error
C29_IdentifierUnresolvable ==
    \A n \in Repos :
        (ReadNew(n) /\ rec[n].ident = "fail") =>
            /\ ~PrepareInvoked(n)
            /\ store[n].id = rec[n].old.id
            /\ store[n].last = rec[n].old.last
            /\ IF PatchesOK(n)
               THEN /\ store[n].phase = PhaseNotReady
                    /\ store[n].message = IdentErr
                    /\ store[n].freq > 0
                    /\ store[n].freq = IF rec[n].old.freq > 0 THEN rec[n].old.freq ELSE Defaulted(n)
                    /\ rec[n].err = "nil"
               ELSE /\ Resource(store[n]) = Resource(rec[n].old)
                    /\ rec[n].err = "patch"

\* the identifier could not be derived and the backend's suggestion was
\* persisted as the frequency
C29_Witness ==
    \E n \in Repos :
        /\ ReadNew(n) /\ rec[n].ident = "fail" /\ PatchesOK(n)
        /\ rec[n].old.freq <= 0 /\ rec[n].sug = <<[freq |-> 3, err |-> FALSE]>>
        /\ store[n].freq = 3 /\ store[n].phase = PhaseNotReady /\ store[n].id = NoId

\* C30: while a backup or restore holds its shared lock on a name, taken
\* through the factories of the manager, no InitRepo, PruneRepo or Forget
\* holds the lock of that name and none that waits for it can take it
C30_FactoriesShareTheLocker ==
    \A n \in Names, p \in Clients :
        (Holds(p, n) /\ call[p].op \in FactoryOps) =>
            /\ ExclusiveHolders(n) = {}
            /\ ~locks[n].w /\ locks[n].r >= 1
            /\ \A q \in Clients :
                  (Waits(q, n) /\ call[q].op \in ExclusiveOps) => ~ENABLED Acquire(q)

\* a backup holds r1 while a PruneRepo of r1 waits
C30_Witness ==
    \E p, q \in Clients :
        /\ Holds(p, "r1") /\ call[p].op = "Backup"
        /\ Waits(q, "r1") /\ call[q].op = "PruneRepo"
        /\ ~ENABLED Acquire(q)

\* C31: the registry holds one mutex per name for the life of the process: an
\* entry appears only when an operation on that name takes its lock, an entry
\* once made stays, and every holder of a name is counted on that one mutex,
\* so concurrent first users of a new name share it
C31_OneMutexPerName ==
    [][\A n \in Names :
        /\ locks[n].made => locks'[n].made
        /\ (~locks[n].made /\ locks'[n].made) =>
              \E p \in Procs : Waits(p, n) /\ call'[p].pc = "exec"
        /\ ~locks'[n].made => (locks'[n].r = 0 /\ ~locks'[n].w)
        /\ locks'[n].r = Cardinality({p \in Procs :
              call'[p].pc \in {"exec", "unlock"} /\ call'[p].name = n
              /\ call'[p].op \in SharedOps})
        /\ locks'[n].w = (\E p \in Procs :
              call'[p].pc \in {"exec", "unlock"} /\ call'[p].name = n
              /\ call'[p].op \in ExclusiveOps)]_vars

\* two callers took the shared lock of the same name, both counted on its
\* mutex, while the other name was never used and has no mutex
C31_Witness ==
    \E n, m \in Names : \E p, q \in Clients :
        /\ p # q /\ n # m
        /\ p \in SharedHolders(n) /\ q \in SharedHolders(n)
        /\ locks[n].made /\ locks[n].r = 2
        /\ ~locks[m].made

\* the files a returned exec has called os.Remove on, and those whose removal
\* failed
RemoveCalled == {pure.removals[i][1] : i \in 1..Len(pure.removals)}
RemoveFailed == {pure.removals[i][1] : i \in {j \in 1..Len(pure.removals) : pure.removals[j][2] = "err"}}

\* C32 as stated: once exec has returned on a path after the credential file
\* path was obtained, no temporary file of the call is left on disk
C32_NoTempFileSurvives ==
    (pure.at = "returned" /\ pure.failed # "path") => pure.files = {}

\* C32 amended: once exec has returned on a path after the credential file
\* path was obtained, os.Remove was called once on the credential file and on
\* the CA file the call created, and the files left on disk are exactly those
\* whose removal failed
C32_RemovalAttemptedOnEveryPath ==
    (pure.at = "returned" /\ pure.failed # "path") =>
        /\ "credentials" \in pure.created
        /\ RemoveCalled = pure.created
        /\ Len(pure.removals) = Cardinality(pure.created)
        /\ pure.files = RemoveFailed

\* the command failed after a credential file and a CA file were made, and
\* both are gone when exec has returned
C32_Witness ==
    /\ pure.at = "returned" /\ pure.failed = "command"
    /\ pure.created = {"credentials", "cacert"}
    /\ pure.removals = <<<<"cacert", "ok">>, <<"credentials", "ok">>>>
    /\ pure.files = {}

\* C33: exec returns an error that carries the command text, stdout and stderr
\* when the command fails, nil when the command succeeds, and an error
\* without having run the command when the credential path, the storage
\* location, the CA file or the environment fails; the deferred removals
\* change neither
C33_ExecErrors ==
    [][/\ (pure.at \in {"path", "location", "env"} /\ pure'.at = "defer") =>
             /\ pure'.failed \in {"path", "location", "cacert", "env"}
             /\ pure'.err # NoErr
             /\ pure'.ran = <<>>
       /\ pure.at = "run" =>
             /\ pure'.ran = <<pure.cmd \o pure.flags>>
             /\ pure'.failed \in {"none", "command"}
             /\ pure'.failed = "none" => pure'.err = NoErr
             /\ pure'.failed = "command" =>
                    /\ Len(pure'.err) = 1
                    /\ pure'.err[1].command = pure'.ran[1]
                    /\ pure'.err[1].stdout = pure'.out.stdout
                    /\ pure'.err[1].stderr = pure'.out.stderr
       /\ pure.at = "defer" =>
             /\ pure'.err = pure.err
             /\ pure'.ran = pure.ran]_vars

\* exec has returned the error of a failed command that wrote to stdout and
\* stderr and ran with the TLS flag of the location
C33_Witness ==
    /\ pure.at = "returned" /\ pure.failed = "command"
    /\ pure.err = <<RunError(pure.ran[1], pure.out)>>
    /\ pure.out = [stdout |-> "out", stderr |-> "Fatal"]
    /\ pure.ran[1][Len(pure.ran[1])] = resticInsecureTLSFlag \o "=true"

\* the state New of the lifecycle: phase empty or "New"
IsNew(ph) == ph \in {PhaseEmpty, PhaseNew}

\* C34: the phase of a repository moves forward only: a step that changes it
\* takes New to NotReady, New to Ready or NotReady to Ready, so a Ready
\* repository never becomes NotReady or New, whatever commands fail
C34_PhaseMovesForward ==
    [][\A n \in Repos :
         store'[n].phase # store[n].phase =>
            \/ IsNew(store[n].phase) /\ store'[n].phase \in {PhaseNotReady, PhaseReady}
            \/ store[n].phase = PhaseNotReady /\ store'[n].phase = PhaseReady]_vars

\* the reconcile of a Ready repository had its stale-lock check and its prune
\* fail, and the repository is Ready with the prune error as message
C34_Witness ==
    \E n \in Repos :
        /\ Read(n, PhaseReady)
        /\ FailedOps(n) = {"UnlockRepo", "PruneRepo"}
        /\ PatchesOK(n)
        /\ store[n].phase = PhaseReady /\ store[n].message # NoMsg

\* C35: a step from NotReady to Ready changes the phase and clears the
\* message and nothing else; a NotReady repository has no lastMaintenanceTime,
\* and the reconcile of a Ready repository without lastMaintenanceTime finds
\* it due and runs PruneRepo
C35_NotReadyToReadyKeepsTime ==
    [][\A n \in Repos :
         /\ (store[n].phase = PhaseNotReady /\ store'[n].phase = PhaseReady) =>
               store'[n] = [store[n] EXCEPT !.phase = PhaseReady, !.message = NoMsg]
         /\ store'[n].phase = PhaseNotReady => store'[n].last = NoTime
         /\ (rec'[n].pc = "done" /\ rec'[n].err # "get" /\ rec'[n].old.exists
               /\ rec'[n].old.phase = PhaseReady /\ rec'[n].old.last = NoTime) =>
               \E i \in 1..Len(rec'[n].ops) : rec'[n].ops[i][1] = "PruneRepo"]_vars

\* a repository that went Ready from NotReady without a maintenance time was
\* reconciled again, pruned, and now has one
C35_Witness ==
    \E n \in Repos :
        /\ Read(n, PhaseReady) /\ rec[n].old.last = NoTime
        /\ <<"PruneRepo", NoErr>> \in Made(n)
        /\ store[n].phase = PhaseReady /\ store[n].last # NoTime

\* C36: the reconcile of a Ready repository whose PruneRepo succeeded leaves
\* phase, message, identifier and frequency as they were read; it changes
\* lastMaintenanceTime alone, to the time read before the prune started when
\* its patch is accepted, and changes nothing when the patch is refused
C36_PruneSuccessChangesOnlyTime ==
    \A n \in Repos :
        (Read(n, PhaseReady) /\ <<"PruneRepo", NoErr>> \in Made(n)) =>
            /\ store[n].phase = rec[n].old.phase
            /\ store[n].message = rec[n].old.message
            /\ store[n].id = rec[n].old.id
            /\ store[n].freq = rec[n].old.freq
            /\ rec[n].start <= rec[n].now /\ rec[n].now <= clock
            /\ store[n].last = IF PatchesOK(n) THEN rec[n].now ELSE rec[n].old.last

\* a Ready repository carrying the message of an earlier failed prune was
\* pruned with success while the clock moved: the message is still there and
\* lastMaintenanceTime is the time read before the prune
C36_Witness ==
    \E n \in Repos :
        /\ Read(n, PhaseReady) /\ <<"PruneRepo", NoErr>> \in Made(n) /\ PatchesOK(n)
        /\ rec[n].old.message = <<"PruneRepo", "err">>
        /\ store[n].message = <<"PruneRepo", "err">>
        /\ store[n].last = rec[n].now /\ rec[n].now < clock
        /\ store[n].last # rec[n].old.last

\* C37: every repository that is Ready, having been created with an empty
\* phase (or "New") and no identifier, has an identifier and a positive
\* maintenance frequency
C37_ReadyHasIdentifierAndFrequency ==
    \A n \in Repos :
        store[n].phase = PhaseReady => (store[n].id # NoId /\ store[n].freq > 0)

\* a repository created without a frequency, reconciled by a reconciler
\* without an override, is Ready with its identifier and the default frequency
C37_Witness ==
    \E n \in Repos :
        /\ ReadNew(n) /\ rec[n].old.phase = PhaseEmpty /\ rec[n].old.freq = 0
        /\ override = 0
        /\ store[n].phase = PhaseReady
        /\ store[n].id = RepoId(n) /\ store[n].freq = defaultMaintainFrequency

\* PrepareRepo of the worker of n stands between its two steps: InitRepo has
\* returned nil and ConnectToRepo has not taken its lock yet
BetweenInitAndConnect(n) ==
    \/ /\ rec[n].pc = "init" /\ call[<<"w", n>>].pc = "returned"
       /\ call[<<"w", n>>].err = NoErr
    \/ rec[n].pc = "connect" /\ call[<<"w", n>>].pc = "lock"

C39_NotReadyBecomesReady ==
    \A n \in Repos :
        (pure = Healed /\ store[n].exists /\ store[n].phase = PhaseNotReady
            /\ store[n].id # NoId)
        ~> (store[n].phase = PhaseReady)

\* in the healed environment a NotReady repository with an identifier went
\* Ready in a reconcile whose stale-lock check failed
C39_Witness ==
    \E n \in Repos :
        /\ pure = Healed
        /\ Read(n, PhaseNotReady) /\ rec[n].old.id # NoId
        /\ FailedOps(n) = {"UnlockRepo"}
        /\ store[n].phase = PhaseReady

====
